---------------------------- MODULE Spec2Model ----------------------------
(***************************************************************************)
(* A model of sequence.py: Timer / DaytimeTimer, the pass loop of          *)
(* Sequence.go(), Sequence.stop() called from another thread, and the      *)
(* command units (threads running BaseCmd.__call__).                       *)
(*                                                                         *)
(* Time is an integer clock `now' (time.time()); any amount of time may    *)
(* pass between two steps of any thread, which is the latency of the       *)
(* calls.  DayTime.daytime() is the clock modulo the length of a day.      *)
(* The module is Python 2 code (dict.has_key, filter returning a list).    *)
(***************************************************************************)
EXTENDS Integers, Sequences, FiniteSets

(* ------------------------------ bounds -------------------------------- *)

\* the clock of Spec stops here
MaxTime == 4
\* the clock of SpecLong stops here
MaxTimeLong == 259
\* go() is called at most this often
MaxRuns == 2
\* stop() is called at most this often
MaxStops == 1
\* a command list of SpecShare grows to this length
MaxCmds == 3

(* --------------------------- program values --------------------------- *)

\* Python's None, for _stage, _timelag and _max_count
None == -1
\* DaytimeTimer.__init__ hands the timer itself to Timer.__init__ as interval
SelfObj == -2
\* CPython keeps one object per integer up to here; `is' on larger, equal
\* integers depends on the interpreter
SmallIntMax == 256
\* length of a day in clock units: DayTime.daytime() is a time of day
DayLen == 24

VARIABLES
    now,                \* time.time()
    \* Timer
    kind,               \* "Timer" or "DaytimeTimer"
    interval,           \* Timer._interval
    max_count,          \* Timer._max_count (None: unlimited)
    snap,               \* Timer._snap
    latency_tolerance,  \* Timer._latency_tolerance
    stage,              \* Timer._stage (None: not started)
    counter,            \* Timer._counter
    timelag,            \* Timer._timelag
    stopped,            \* Timer._stopped
    first_time,         \* Timer._first_time
    data,               \* DaytimeTimer._data, sorted
    \* Sequence
    cmds,               \* Sequence.cmds
    alive,              \* Sequence._alive: "unset" until go() assigns it
    cmd_counter,        \* BaseCmd._counter of each command
    \* the thread running go()
    pc,                 \* where go() stands
    idx,                \* position of `for cmd in self.cmds'
    wake,               \* end of the time.sleep() go() is in
    joining,            \* the unit thread.join() waits for
    threads,            \* the local list `threads' of go()
    units,              \* the threads started by go(), each running cmd(...)
    \* the thread calling stop()
    stop_pc,            \* where stop() stands
    stop_wait,          \* the wait argument of the stop() call in progress
    \* history
    run,                \* number of go() calls so far
    stops,              \* number of stop() calls so far
    start_wait,         \* what the last Timer.start() returned
    stage0,             \* the stage the last Timer.start() set
    gates,              \* results of cmd.check() in the current pass
    last_pass,          \* <<run, counter>> of the last pass begun
    stop_at,            \* idx at which stop() was called during the current pass
    stop_from,          \* whether go() was running at the last stop() call
    resolved_at,        \* daytime of the last DaytimeTimer.actualize()
    \* further Sequence objects
    lists,              \* the list objects, by identity; 0 is the default
                        \* `cmds=list()' of Sequence.__init__
    seq_cmds            \* Sequence.cmds of each further Sequence: a list

timerVars == <<kind, interval, max_count, snap, latency_tolerance, stage,
               counter, timelag, stopped, first_time, data>>
loopVars == <<pc, idx, wake, joining, threads>>
stopVars == <<stop_pc, stop_wait, stops>>
histVars == <<run, start_wait, stage0, gates, last_pass, stop_at, stop_from,
             resolved_at>>
shareVars == <<lists, seq_cmds>>
vars == <<now, timerVars, cmds, alive, cmd_counter, loopVars, units,
          stopVars, histVars, shareVars>>

(* ------------------------------- Timer -------------------------------- *)

\* Timer.alive: bool(self._stage)
TimerAlive == stage # None /\ stage # 0

\* DayTime.daytime()
Daytime(t) == t % DayLen

\* the loop of DaytimeTimer.actualize: every entry with time < now assigns
RECURSIVE ScanData(_, _, _, _)
ScanData(d, i, dt, cur) ==
    IF i > Len(d) THEN cur
    ELSE ScanData(d, i + 1, dt, IF d[i][1] < dt THEN d[i][2] ELSE cur)

\* DaytimeTimer.actualize: the interval after the call at daytime dt
DaytimeActualize(d, dt, cur) ==
    IF dt < d[Len(d)][1] THEN d[1][2] ELSE ScanData(d, 1, dt, cur)

\* Timer.actualize (a no-op) or its override, at clock time t
Actualize(t) ==
    IF kind = "DaytimeTimer" THEN DaytimeActualize(data, Daytime(t), interval)
    ELSE interval

\* a snapped start that returns the time since the last boundary
SnapWaitElapsed(t, i) == t % i

\* seconds_to_wait of a snapped start
SnapWait(t, i) == i - (t % i)

\* a snapped start that stages the present time
StageUnsnapped(t, w) == t

\* the stage a snapped start sets
SnapStage(t, w) == t + w

\* a tick that stages the present time: self._stage = time.time()
StageAtNow(s, i, t) == t

\* the stage after a tick: self._stage += self.interval
NextStage(s, i, t) == s + i

\* lag -> timelag
Timelag(lag) == IF lag <= latency_tolerance THEN None ELSE lag

\* the possible results of `a is b' for a counter a and a max_count b
IsSame(a, b) ==
    IF a # b THEN {FALSE}
    ELSE IF a <= SmallIntMax THEN {TRUE}
    ELSE {TRUE, FALSE}

\* Timer.start() with a zero interval and snap divides by zero
StartRaises(i) == snap /\ i = 0

(* ----------------------------- commands ------------------------------- *)

\* Cmd._check_times
CheckTimes(c, i, dt) ==
    \/ c.times = {}
    \/ \E t \in c.times : dt >= t /\ dt - t < i

\* a gate that counts the passes from zero
CheckNthtimeFromZero(c, n) == (n - 1) % c.nthtime = 0

\* Cmd._check_nthtime
CheckNthtime(c, n) == n % c.nthtime = 0

\* cmd.check(sequence)
Gate(c) ==
    IF c.cls = "BaseCmd" THEN TRUE
    ELSE CheckTimes(c, interval, Daytime(now)) /\ CheckNthtime(c, counter)

\* Cmd._check_delay
CheckDelay(d, r) == IF d - r > 0 THEN d - r ELSE 0

\* cmd.preexec(sequence) raises when timer.runtime is None
PreexecRaises(c) == c.cls = "Cmd" /\ ~TimerAlive

\* cmd.preexec(sequence)
Preexec(c) ==
    IF c.cls = "BaseCmd" THEN 0
    ELSE c.wait + CheckDelay(c.delay, now - stage)

\* cmd.postexec(sequence)
Postexec(c) == IF c.cls = "BaseCmd" THEN 0 ELSE c.stall

\* a loop that joins no thread
NeverJoins(c) == FALSE

\* cmd.join
Joins(c) == c.join

\* a unit whose thread has ended: t.is_alive() is false
Ended(u) == u.status \in {"done", "failed", "crashed"}

\* a drain that waits for no thread
NoThreadsAlive == {}

\* filter(lambda t: t.is_alive(), threads)
ThreadsAlive == {k \in 1..Len(threads) : ~Ended(units[threads[k]])}

\* a for loop that breaks once stop() was called
NextCmdUnlessStopped(i) == IF stopped THEN Len(cmds) + 1 ELSE i + 1

\* the next position of `for cmd in self.cmds'
NextCmd(i) == i + 1

(* ---------------------------- configurations -------------------------- *)

BaseCmd(j, r) ==
    [cls |-> "BaseCmd", join |-> j, wait |-> 0, stall |-> 0, delay |-> 0,
     nthtime |-> 1, times |-> {}, raises |-> r]

Cmd(j, w, s, d, n, ts, r) ==
    [cls |-> "Cmd", join |-> j, wait |-> w, stall |-> s, delay |-> d,
     nthtime |-> n, times |-> ts, raises |-> r]

TimerConfig(k, i, m, s, l, d) ==
    [kind |-> k, interval |-> i, max_count |-> m, snap |-> s,
     latency_tolerance |-> l, data |-> d]

\* a command list of a joined command that stalls and whose callable may
\* raise, and a detached one that waits
JoinedThenDetached ==
    <<Cmd(TRUE, 0, 1, 0, 1, {}, TRUE), Cmd(FALSE, 1, 0, 0, 1, {}, FALSE)>>

\* a detached command with a delay
Delayed == <<Cmd(FALSE, 0, 0, 1, 1, {}, FALSE)>>

\* a detached command for every second pass, and a joined BaseCmd
EverySecond == <<Cmd(FALSE, 0, 0, 0, 2, {}, FALSE), BaseCmd(TRUE, FALSE)>>

\* a command with times of day
Windowed == <<Cmd(FALSE, 0, 0, 0, 1, {2, 4}, FALSE)>>

\* a detached command for every second pass
SecondOnly == <<Cmd(FALSE, 0, 0, 0, 2, {}, FALSE)>>

\* a detached command with one time of day
AtTwo == <<Cmd(FALSE, 0, 0, 0, 1, {2}, FALSE)>>

\* the sequences a run is made with: a timer and its command list
Setups ==
    { <<TimerConfig("Timer", 2, 2, FALSE, 0, <<>>), JoinedThenDetached>>,
      <<TimerConfig("Timer", 2, None, TRUE, 0, <<>>), Delayed>>,
      <<TimerConfig("Timer", 1, 3, FALSE, 1, <<>>), EverySecond>>,
      <<TimerConfig("Timer", 1, 4, FALSE, 3, <<>>), SecondOnly>>,
      <<TimerConfig("Timer", 2, 2, FALSE, 3, <<>>), AtTwo>>,
      <<TimerConfig("Timer", 0, 1, FALSE, 0, <<>>), Delayed>>,
      <<TimerConfig("Timer", 0, 1, TRUE, 0, <<>>), Delayed>>,
      <<TimerConfig("DaytimeTimer", SelfObj, 3, FALSE, 0,
                    <<<<2, 0>>, <<3, 1>>>>), Windowed>>,
      <<TimerConfig("DaytimeTimer", SelfObj, None, TRUE, 0,
                    <<<<2, 1>>, <<3, 0>>>>), <<>>>> }

(* -------------------------------- Init -------------------------------- *)

\* the identity of the list made once by `cmds=list()' in the signature of
\* Sequence.__init__
DefaultList == 0

\* Timer.__init__, Sequence.__init__ and the commands before go()
InitWith(tc, cl, t) ==
    /\ now = t
    /\ kind = tc.kind
    /\ interval = tc.interval
    /\ max_count = tc.max_count
    /\ snap = tc.snap
    /\ latency_tolerance = tc.latency_tolerance
    /\ data = tc.data
    /\ stage = None
    /\ counter = 0
    /\ timelag = None
    /\ stopped = FALSE
    /\ first_time = FALSE
    /\ cmds = cl
    /\ lists = [k \in {DefaultList} |-> <<>>]
    /\ seq_cmds = <<>>
    /\ alive = "unset"
    /\ cmd_counter = [i \in 1..Len(cl) |-> 0]
    /\ pc = "idle"
    /\ idx = 0
    /\ wake = 0
    /\ joining = 0
    /\ threads = <<>>
    /\ units = <<>>
    /\ stop_pc = "idle"
    /\ stop_wait = FALSE
    /\ run = 0
    /\ stops = 0
    /\ start_wait = None
    /\ stage0 = None
    /\ gates = <<>>
    /\ last_pass = <<0, 0>>
    /\ stop_at = 0
    /\ stop_from = "none"
    /\ resolved_at = None

Init == \E su \in Setups : InitWith(su[1], su[2], 1)

(* ------------------------- the thread of go() ------------------------- *)

\* Timer.reset
Reset ==
    /\ counter' = 0
    /\ stage' = None
    /\ stopped' = FALSE

\* Timer.start that leaves the first check() unarmed
TimerStartUnarmed ==
    LET i == Actualize(now) IN
    /\ interval' = i
    /\ first_time' = FALSE
    /\ resolved_at' = IF kind = "DaytimeTimer" THEN Daytime(now) ELSE resolved_at
    /\ IF ~snap
       THEN /\ stage' = now
            /\ start_wait' = 0
       ELSE /\ stage' = SnapStage(now, SnapWait(now, i))
            /\ start_wait' = SnapWait(now, i)
    /\ stage0' = stage'

\* Timer.start at the present time: sets the interval, the stage and the wait
TimerStart ==
    LET i == Actualize(now) IN
    /\ interval' = i
    /\ first_time' = TRUE
    /\ resolved_at' = IF kind = "DaytimeTimer" THEN Daytime(now) ELSE resolved_at
    /\ IF ~snap
       THEN /\ stage' = now
            /\ start_wait' = 0
       ELSE /\ stage' = SnapStage(now, SnapWait(now, i))
            /\ start_wait' = SnapWait(now, i)
    /\ stage0' = stage'

\* go(): time.sleep(self.timer.start()) begins; start() may raise
Go ==
    /\ pc \in {"idle", "done"}
    /\ run < MaxRuns
    /\ run' = run + 1
    /\ units' = SelectSeq(units, LAMBDA u : ~Ended(u))
    /\ threads' = <<>>
    /\ gates' = <<>>
    /\ stop_at' = 0
    /\ IF StartRaises(Actualize(now))
       THEN /\ pc' = "raised"
            /\ interval' = Actualize(now)
            /\ first_time' = TRUE
            /\ UNCHANGED <<stage, start_wait, stage0, resolved_at, wake>>
       ELSE /\ TimerStart
            /\ pc' = "start_sleep"
            /\ wake' = now + start_wait'
    /\ UNCHANGED <<now, kind, max_count, snap, latency_tolerance, counter,
                   timelag, stopped, data, cmds, shareVars, alive, cmd_counter, idx,
                   joining, stopVars, last_pass, stop_from>>

\* go(): the sleep is over; self._alive = True
GoAlive ==
    /\ pc = "start_sleep"
    /\ now >= wake
    /\ alive' = "true"
    /\ pc' = "run_check"
    /\ UNCHANGED <<now, timerVars, cmds, shareVars, cmd_counter, idx, wake, joining,
                   threads, units, stopVars, histVars>>

\* while self.timer.run_check()
RunCheck ==
    /\ pc = "run_check"
    /\ IF stopped THEN Reset ELSE UNCHANGED <<counter, stage, stopped>>
    /\ \E same \in IsSame(counter', max_count) :
          pc' = IF stage' # None /\ stage' # 0 /\ ~same THEN "check" ELSE "drain"
    /\ UNCHANGED <<now, kind, interval, max_count, snap, latency_tolerance,
                   timelag, first_time, data, cmds, shareVars, alive, cmd_counter, idx,
                   wake, joining, threads, units, stopVars, histVars>>

\* a tick: the pass begins with threads = list()
BeginPass ==
    /\ pc' = "cmds"
    /\ idx' = 1
    /\ threads' = <<>>
    /\ gates' = <<>>
    /\ stop_at' = 0
    /\ last_pass' = <<run, counter'>>

\* no tick: on to time.sleep(0.002)
NoPass ==
    /\ pc' = "sleep"
    /\ UNCHANGED <<idx, threads, gates, stop_at, last_pass>>

\* if self.timer.check(): Timer.check, and the begin of a pass
Check ==
    /\ pc = "check"
    /\ IF ~TimerAlive
       THEN /\ NoPass
            /\ UNCHANGED <<interval, stage, counter, timelag, first_time,
                           wake, start_wait, stage0, resolved_at>>
       ELSE IF interval = 0
       THEN IF Actualize(now) # 0
            THEN IF StartRaises(Actualize(now))
                 THEN /\ pc' = "raised"
                      /\ interval' = Actualize(now)
                      /\ first_time' = TRUE
                      /\ resolved_at' = Daytime(now)
                      /\ UNCHANGED <<stage, counter, timelag, wake, start_wait,
                                     stage0, idx, threads, gates, stop_at,
                                     last_pass>>
                 ELSE /\ TimerStart
                      /\ pc' = "check_sleep"
                      /\ wake' = now + start_wait'
                      /\ UNCHANGED <<counter, timelag, idx, threads, gates,
                                     stop_at, last_pass>>
            ELSE /\ NoPass
                 /\ resolved_at' =
                        IF kind = "DaytimeTimer" THEN Daytime(now) ELSE resolved_at
                 /\ UNCHANGED <<interval, stage, counter, timelag, first_time,
                                wake, start_wait, stage0>>
       ELSE IF first_time
       THEN /\ counter' = counter + 1
            /\ first_time' = FALSE
            /\ BeginPass
            /\ UNCHANGED <<interval, stage, timelag, wake, start_wait, stage0,
                           resolved_at>>
       ELSE IF now - stage < interval
       THEN /\ NoPass
            /\ UNCHANGED <<interval, stage, counter, timelag, first_time,
                           wake, start_wait, stage0, resolved_at>>
       ELSE /\ timelag' = Timelag((now - stage) - interval)
            /\ interval' = Actualize(now)
            /\ resolved_at' =
                   IF kind = "DaytimeTimer" THEN Daytime(now) ELSE resolved_at
            /\ IF interval' = 0
               THEN /\ NoPass
                    /\ UNCHANGED <<stage, counter>>
               ELSE /\ counter' = counter + 1
                    /\ stage' = NextStage(stage, interval', now)
                    /\ BeginPass
            /\ UNCHANGED <<first_time, wake, start_wait, stage0>>
    /\ UNCHANGED <<now, kind, max_count, snap, latency_tolerance, stopped,
                   data, cmds, shareVars, alive, cmd_counter, joining, units, stopVars,
                   run, stop_from>>

\* Timer.check: the sleep of the start() made by a check() that found the
\* interval no longer zero is over; check() returns None
CheckSleep ==
    /\ pc = "check_sleep"
    /\ now >= wake
    /\ pc' = "sleep"
    /\ UNCHANGED <<now, timerVars, cmds, shareVars, alive, cmd_counter, idx, wake,
                   joining, threads, units, stopVars, histVars>>

\* after the body of the for loop for position i
Advance(i) ==
    IF NextCmd(i) > Len(cmds)
    THEN /\ pc' = "sleep"
         /\ idx' = NextCmd(i)
    ELSE /\ pc' = "cmds"
         /\ idx' = NextCmd(i)

\* a new thread running cmd(sequence, ...)
NewUnit(i) ==
    [cmd |-> i, run |-> run, pass |-> counter, status |-> "start",
     wake |-> 0, loaded |-> 0]

\* for cmd in self.cmds: cmd.check(self), thread.start(), threads.append
LoopCmd ==
    /\ pc = "cmds"
    /\ idx <= Len(cmds)
    /\ gates' = Append(gates, Gate(cmds[idx]))
    /\ IF ~Gate(cmds[idx])
       THEN /\ Advance(idx)
            /\ UNCHANGED <<units, threads, joining>>
       ELSE /\ units' = Append(units, NewUnit(idx))
            /\ IF Joins(cmds[idx])
               THEN /\ pc' = "join"
                    /\ joining' = Len(units) + 1
                    /\ UNCHANGED <<idx, threads>>
               ELSE /\ threads' = Append(threads, Len(units) + 1)
                    /\ Advance(idx)
                    /\ UNCHANGED joining
    /\ UNCHANGED <<now, timerVars, cmds, shareVars, alive, cmd_counter, wake, stopVars,
                   run, start_wait, stage0, last_pass, stop_at, stop_from,
                   resolved_at>>

\* a pass over an empty command list
LoopEmpty ==
    /\ pc = "cmds"
    /\ idx > Len(cmds)
    /\ pc' = "sleep"
    /\ UNCHANGED <<now, timerVars, cmds, shareVars, alive, cmd_counter, idx, wake,
                   joining, threads, units, stopVars, histVars>>

\* thread.join() returns; threads.append(thread)
LoopJoin ==
    /\ pc = "join"
    /\ Ended(units[joining])
    /\ threads' = Append(threads, joining)
    /\ joining' = 0
    /\ Advance(idx)
    /\ UNCHANGED <<now, timerVars, cmds, shareVars, alive, cmd_counter, wake, units,
                   stopVars, histVars>>

\* time.sleep(0.002), shorter than a unit of the clock
LoopSleep ==
    /\ pc = "sleep"
    /\ pc' = "run_check"
    /\ UNCHANGED <<now, timerVars, cmds, shareVars, alive, cmd_counter, idx, wake,
                   joining, threads, units, stopVars, histVars>>

\* the else of the while: wait for the threads of the last pass, then
\* self.timer.reset()
Drain ==
    /\ pc = "drain"
    /\ ThreadsAlive = {}
    /\ Reset
    /\ pc' = "finish"
    /\ UNCHANGED <<now, kind, interval, max_count, snap, latency_tolerance,
                   timelag, first_time, data, cmds, shareVars, alive, cmd_counter, idx,
                   wake, joining, threads, units, stopVars, histVars>>

\* self._alive = False
Finish ==
    /\ pc = "finish"
    /\ alive' = "false"
    /\ pc' = "done"
    /\ UNCHANGED <<now, timerVars, cmds, shareVars, cmd_counter, idx, wake, joining,
                   threads, units, stopVars, histVars>>

(* --------------------- the threads of the commands -------------------- *)

\* units[u] with its status changed, and nothing kept once it has ended
Becomes(u, st, w, l) ==
    units' = [units EXCEPT ![u] = [@ EXCEPT !.status = st, !.wake = w,
                                             !.loaded = l]]

\* BaseCmd.__call__: self._counter += 1 reads the counter
UnitLoad(u) ==
    /\ units[u].status = "start"
    /\ Becomes(u, "inc", 0, cmd_counter[units[u].cmd])
    /\ UNCHANGED <<now, timerVars, cmds, shareVars, alive, cmd_counter, loopVars,
                   stopVars, histVars>>

\* self._counter += 1 writes the counter; time.sleep(self.preexec(sequence))
\* begins, or preexec raises
UnitPreexec(u) ==
    /\ units[u].status = "inc"
    /\ cmd_counter' = [cmd_counter EXCEPT ![units[u].cmd] = units[u].loaded + 1]
    /\ IF PreexecRaises(cmds[units[u].cmd])
       THEN Becomes(u, "crashed", 0, 0)
       ELSE Becomes(u, "wait", now + Preexec(cmds[units[u].cmd]), 0)
    /\ UNCHANGED <<now, timerVars, cmds, shareVars, alive, loopVars, stopVars, histVars>>

\* the sleep is over: rtn = self._cmd(*args, **kwargs) returns, and
\* time.sleep(self.postexec(sequence)) begins
UnitRun(u) ==
    /\ units[u].status = "wait"
    /\ now >= units[u].wake
    /\ Becomes(u, "stall", now + Postexec(cmds[units[u].cmd]), 0)
    /\ UNCHANGED <<now, timerVars, cmds, shareVars, alive, cmd_counter, loopVars,
                   stopVars, histVars>>

\* the sleep is over: self._cmd(*args, **kwargs) raises, and nothing in
\* __call__ catches it
UnitFail(u) ==
    /\ units[u].status = "wait"
    /\ now >= units[u].wake
    /\ cmds[units[u].cmd].raises
    /\ Becomes(u, "failed", 0, 0)
    /\ UNCHANGED <<now, timerVars, cmds, shareVars, alive, cmd_counter, loopVars,
                   stopVars, histVars>>

\* the sleep of postexec is over: __call__ returns
UnitDone(u) ==
    /\ units[u].status = "stall"
    /\ now >= units[u].wake
    /\ Becomes(u, "done", 0, 0)
    /\ UNCHANGED <<now, timerVars, cmds, shareVars, alive, cmd_counter, loopVars,
                   stopVars, histVars>>

(* ------------------------- the thread of stop() ----------------------- *)

\* Sequence.stop(wait=w): self.timer.stop()
Stop(w) ==
    /\ stop_pc # "waiting"
    /\ stops < MaxStops
    /\ stops' = stops + 1
    /\ stopped' = TRUE
    /\ stop_wait' = w
    /\ stop_pc' = IF w THEN "waiting" ELSE "returned"
    /\ stop_at' = IF pc \in {"cmds", "join"} /\ stop_at = 0 THEN idx ELSE stop_at
    /\ stop_from' = IF pc \in {"idle", "done", "raised"} THEN "idle" ELSE "running"
    /\ UNCHANGED <<now, kind, interval, max_count, snap, latency_tolerance,
                   stage, counter, timelag, first_time, data, cmds, shareVars, alive,
                   cmd_counter, loopVars, units, run, start_wait, stage0,
                   gates, last_pass, resolved_at>>

\* while self.alive: time.sleep(0.01) finds alive false, or no _alive at all
StopPoll ==
    /\ stop_pc = "waiting"
    /\ alive # "true"
    /\ stop_pc' = IF alive = "unset" THEN "raised" ELSE "returned"
    /\ UNCHANGED <<now, timerVars, cmds, shareVars, alive, cmd_counter, loopVars, units,
                   stop_wait, stops, histVars>>

(* ------------------------------ the clock ----------------------------- *)

\* time passes, up to a limit
Pass(limit) ==
    /\ now < limit
    /\ now' = now + 1
    /\ UNCHANGED <<timerVars, cmds, shareVars, alive, cmd_counter, loopVars, units,
                   stopVars, histVars>>

AdvanceTime == Pass(MaxTime)

(* -------------------------------- Spec -------------------------------- *)

Loop ==
    \/ Go
    \/ GoAlive
    \/ RunCheck
    \/ Check
    \/ CheckSleep
    \/ LoopCmd
    \/ LoopEmpty
    \/ LoopJoin
    \/ LoopSleep
    \/ Drain
    \/ Finish

Unit(u) ==
    \/ UnitLoad(u)
    \/ UnitPreexec(u)
    \/ UnitRun(u)
    \/ UnitFail(u)
    \/ UnitDone(u)

Next ==
    \/ Loop
    \/ \E u \in 1..Len(units) : Unit(u)
    \/ \E w \in BOOLEAN : Stop(w)
    \/ StopPoll
    \/ AdvanceTime

Spec == Init /\ [][Next]_vars

(* ------------------- a run longer than SmallIntMax -------------------- *)

\* the first max_count whose integer object is not shared
LongCount == SmallIntMax + 1

\* Timer(1, max_count=LongCount, latency_tolerance=MaxTimeLong) and no commands
InitLong ==
    InitWith(TimerConfig("Timer", 1, LongCount, FALSE, MaxTimeLong, <<>>),
             <<>>, 1)

\* go() is called at once: time passes only after that
AdvanceTimeLong == pc # "idle" /\ Pass(MaxTimeLong)

NextLong ==
    \/ Go
    \/ GoAlive
    \/ RunCheck
    \/ Check
    \/ LoopEmpty
    \/ LoopSleep
    \/ Drain
    \/ Finish
    \/ AdvanceTimeLong

SpecLong == InitLong /\ [][NextLong]_vars

(* ----------------- DaytimeTimer.actualize on its own ------------------ *)

\* the times of day and the intervals of the tables
DayTimes == {6, 12, 22}
DayIntervals == {60, 300, 900}

\* the least element of a set of numbers
Least(S) == CHOOSE x \in S : \A y \in S : x <= y

\* self._data.sort(): the entries (t, f[t]) in ascending order of t
RECURSIVE SortedData(_, _)
SortedData(ts, f) ==
    IF ts = {} THEN <<>>
    ELSE <<<<Least(ts), f[Least(ts)]>>>> \o SortedData(ts \ {Least(ts)}, f)

\* the tables a DaytimeTimer is made with
DaytimeTables ==
    { SortedData(ts, f) : ts \in (SUBSET DayTimes) \ {{}},
                          f \in [DayTimes -> DayIntervals] }

\* DaytimeTimer(data) at any time of the day
InitDaytime ==
    \E d \in DaytimeTables, t \in 0..(DayLen - 1) :
        InitWith(TimerConfig("DaytimeTimer", SelfObj, None, FALSE, 0, d),
                 <<>>, t)

\* a call of timer.actualize()
ActualizeCall ==
    /\ interval' = Actualize(now)
    /\ resolved_at' = Daytime(now)
    /\ UNCHANGED <<now, kind, max_count, snap, latency_tolerance, stage,
                   counter, timelag, stopped, first_time, data, cmds, shareVars, alive,
                   cmd_counter, loopVars, units, stopVars, run, start_wait,
                   stage0, gates, last_pass, stop_at, stop_from>>

AdvanceDay == Pass(DayLen - 1)

NextDaytime ==
    \/ ActualizeCall
    \/ AdvanceDay

SpecDaytime == InitDaytime /\ [][NextDaytime]_vars

(* ------------------- Sequences and their command lists ---------------- *)

\* the further Sequence objects a program makes
SeqNames == {"a", "b"}

\* the commands add_cmd() is called with
AddedCmds == {BaseCmd(FALSE, FALSE), BaseCmd(TRUE, FALSE)}

\* the list a further Sequence holds in self.cmds
CmdsOf(s) == lists[seq_cmds[s]]

\* Sequence(timer): self.cmds = cmds, the default of the signature
NewSequenceDefault(s) ==
    /\ s \notin DOMAIN seq_cmds
    /\ seq_cmds' = [x \in DOMAIN seq_cmds \cup {s} |->
                       IF x = s THEN DefaultList ELSE seq_cmds[x]]
    /\ UNCHANGED <<now, timerVars, cmds, alive, cmd_counter, loopVars, units,
                   stopVars, histVars, lists>>

\* Sequence(timer, cmds=[...]): self.cmds = cmds, a list of the caller
NewSequenceWith(s) ==
    LET k == Cardinality(DOMAIN lists) IN
    /\ s \notin DOMAIN seq_cmds
    /\ seq_cmds' = [x \in DOMAIN seq_cmds \cup {s} |->
                       IF x = s THEN k ELSE seq_cmds[x]]
    /\ lists' = [x \in DOMAIN lists \cup {k} |->
                    IF x = k THEN <<>> ELSE lists[x]]
    /\ UNCHANGED <<now, timerVars, cmds, alive, cmd_counter, loopVars, units,
                   stopVars, histVars>>

\* Sequence.add_cmd: self.cmds.append(cmd)
AddCmd(s, c) ==
    /\ s \in DOMAIN seq_cmds
    /\ Len(CmdsOf(s)) < MaxCmds
    /\ lists' = [lists EXCEPT ![seq_cmds[s]] = Append(@, c)]
    /\ UNCHANGED <<now, timerVars, cmds, alive, cmd_counter, loopVars, units,
                   stopVars, histVars, seq_cmds>>

InitShare == InitWith(TimerConfig("Timer", 1, 1, FALSE, 0, <<>>), <<>>, 1)

NextShare ==
    \E s \in SeqNames :
        \/ NewSequenceDefault(s)
        \/ NewSequenceWith(s)
        \/ \E c \in AddedCmds : AddCmd(s, c)

SpecShare == InitShare /\ [][NextShare]_vars

(* ============================== claims ================================ *)

\* C1: for any max_count >= 1 (non-zero interval, no stop() request) a run
\* of go() makes exactly max_count ticks: run_check() returns true before
\* each of the first max_count ticks (so whenever the loop is past a true
\* run_check, fewer than max_count ticks were made before it), returns false
\* at the first run_check() after the max_count-th tick (so the loop leaves
\* with counter = max_count), and the sequence ends with alive = false.
C1_ExactlyMaxCountTicks ==
    (kind = "Timer" /\ max_count >= 1 /\ interval # 0 /\ stops = 0) =>
        /\ pc = "check" => counter < max_count
        /\ pc \in {"cmds", "join", "sleep"} => counter <= max_count
        /\ pc = "drain" => counter = max_count
        /\ pc = "done" => alive = "false"

\* C7: DaytimeTimer.actualize() resolves the interval of the greatest
\* threshold of the table not after now, and the interval of the first entry
\* when now is before the first threshold (60 at 08:00, 300 at 14:00, 900 at
\* 23:00 and 60 at 02:00 for [(06:00,60),(12:00,300),(22:00,900)]).
GreatestNotAfter(d, dt) ==
    IF dt < d[1][1] THEN d[1][2]
    ELSE d[CHOOSE i \in 1..Len(d) :
               /\ d[i][1] <= dt
               /\ \A j \in 1..Len(d) : d[j][1] <= dt => j <= i][2]

C7_GreatestThresholdNotAfterNow ==
    (kind = "DaytimeTimer" /\ resolved_at # None /\ run = 0) =>
        interval = GreatestNotAfter(data, resolved_at)

\* the units started by the last pass begun
LastPassUnits(us) ==
    {u \in 1..Len(us) : us[u].run = last_pass[1] /\ us[u].pass = last_pass[2]}

\* the states a thread of a command ends in
EndStates == {"done", "failed", "crashed"}

\* C2: stop(wait=True) returns only in a state where alive is false and
\* every unit started by the final pass, joined or detached, has ended.
C2_StopWaitReturnsAfterDrain ==
    [][(stop_pc = "waiting" /\ stop_pc' = "returned") =>
          /\ alive' = "false"
          /\ \A u \in LastPassUnits(units) : units'[u].status \in EndStates]_vars

C2_Witness ==
    /\ stop_pc = "returned"
    /\ stop_wait
    /\ stop_at > 0
    /\ pc = "done"
    /\ \E u \in LastPassUnits(units) : ~cmds[units[u].cmd].join

\* C3: a pass during which stop() is called runs to completion: every
\* command is still gate-evaluated, every accepted one is launched (and has
\* ended if its join flag is set), and the request takes effect only at the
\* next run_check(): until then the timer is neither reset nor stopped = false.
C3_StoppedPassCompletes ==
    /\ (pc \in {"cmds", "join", "sleep"} /\ stop_at > 0) =>
           stopped /\ stage # None /\ counter = last_pass[2]
    /\ (pc = "sleep" /\ stop_at > 0) =>
           /\ Len(gates) = Len(cmds)
           /\ \A i \in 1..Len(cmds) :
                 /\ (cmds[i].cls = "Cmd" /\ cmds[i].times = {}) =>
                        gates[i] = (counter % cmds[i].nthtime = 0)
                 /\ cmds[i].cls = "BaseCmd" => gates[i]
                 /\ gates[i] =>
                        \E u \in LastPassUnits(units) :
                            /\ units[u].cmd = i
                            /\ cmds[i].join => units[u].status \in EndStates

C3_Witness ==
    /\ pc = "sleep"
    /\ stop_at = 1
    /\ Len(cmds) = 2
    /\ gates = <<TRUE, TRUE>>

\* C4: if stop() is called while go() is running, the loop exits with the
\* timer reset (counter 0, stage cleared, stopped false) and alive false, and
\* stop(wait=True) returns (it does not raise).
C4_StopEndsRunReset ==
    (stop_from = "running") =>
        /\ stop_pc # "raised"
        /\ pc = "done" =>
               counter = 0 /\ stage = None /\ ~stopped /\ alive = "false"

\* C5: in a pass the commands are gate-evaluated and launched in list order;
\* while the unit of a joined command has not ended (its postexec stall
\* included) the loop waits for it and has evaluated no later command; the
\* loop waits for no unit of a detached command.
C5_JoinedPrecedesNext ==
    /\ pc = "cmds" => Len(gates) = idx - 1
    /\ pc = "join" => Len(gates) = idx /\ cmds[idx].join
    /\ \A u, v \in 1..Len(units) :
          (units[u].run = units[v].run /\ units[u].pass = units[v].pass
              /\ units[u].cmd < units[v].cmd) => u < v
    /\ \A u \in 1..Len(units) :
          (cmds[units[u].cmd].join /\ units[u].status \notin EndStates) =>
              pc = "join" /\ joining = u /\ idx = units[u].cmd

C5_Witness ==
    \E u, v \in 1..Len(units) :
        /\ units[u].run = units[v].run /\ units[u].pass = units[v].pass
        /\ units[u].cmd < units[v].cmd
        /\ ~cmds[units[u].cmd].join
        /\ units[u].status \notin EndStates
        /\ cmds[units[v].cmd].join
        /\ units[v].status = "done"

\* C6: a failure of a wrapped callable is caught in BaseCmd.__call__ and
\* does not propagate out of it: no thread of a command ends by the
\* exception of its callable.
C6_FailureDoesNotPropagate ==
    \A u \in 1..Len(units) : units[u].status # "failed"

\* C8: every tick other than the first after start() advances stage by the
\* current interval, whatever time has passed; with a constant interval,
\* after n >= 1 ticks stage is the stage set by start() plus (n-1) intervals.
C8_DriftFree ==
    /\ []((kind = "Timer" /\ stage # None /\ counter >= 1) =>
              stage = stage0 + (counter - 1) * interval)
    /\ [][(counter' = counter + 1 /\ ~first_time) =>
              stage' = stage + interval']_vars

C8_Witness ==
    /\ kind = "Timer"
    /\ counter = 2
    /\ stage = stage0 + interval
    /\ timelag # None
    /\ now > stage

\* C9, as amended: with snap and an interval I > 0, start() returns a wait
\* in (0, I]: a full interval when now is a multiple of I.
C9_SnapWaitRange ==
    (snap /\ first_time /\ interval > 0) =>
        0 < start_wait /\ start_wait <= interval

\* C9, as claimed: the wait is in [0, I).
C9_SnapWaitHalfOpen ==
    (snap /\ first_time /\ interval > 0) =>
        0 <= start_wait /\ start_wait < interval

C9_Witness ==
    /\ snap
    /\ first_time
    /\ interval = 2
    /\ start_wait = interval
    /\ stage = now + interval

\* C10: with snap, the stage set by start() is a multiple of the interval,
\* also for a timer started again after a stop or a reset, and every later
\* stage is one as well: timers of one interval share their phase.
C10_SnapPhase ==
    (snap /\ kind = "Timer" /\ interval > 0 /\ stage # None) =>
        stage % interval = 0 /\ stage0 % interval = 0

C10_Witness ==
    /\ snap
    /\ kind = "Timer"
    /\ run = 2
    /\ start_wait = 1
    /\ counter = 1
    /\ stage = 4

\* The step in which a call of Timer.check() returns.
CheckReturns == pc = "check" /\ pc' \notin {"check", "check_sleep"}

\* The step in which Timer.check() reports a tick.
Ticks == pc = "check" /\ pc' = "cmds"

\* C11, as amended: without snap start() returns 0 and leaves the stage at
\* the time of the call; if the interval is not zero, the first check() after
\* it reports a tick and adds one to the counter (0 to 1 for a Timer, whose
\* start() is called by go() only), however little time has elapsed, and no
\* check() of such a run returns before that tick; with a zero interval that
\* check() reports no tick and leaves the counter as it is.
C11_FirstCheckTicksNonZero ==
    /\ []((~snap /\ first_time /\ TimerAlive) =>
              (start_wait = 0 /\ stage = stage0 /\ stage <= now))
    /\ []((~snap /\ kind = "Timer" /\ interval # 0 /\ pc = "sleep") =>
              (counter >= 1 /\ ~first_time))
    /\ [][(~snap /\ first_time /\ interval # 0 /\ CheckReturns) =>
              /\ Ticks
              /\ counter' = counter + 1
              /\ kind = "Timer" => counter = 0
              /\ ~first_time']_vars
    /\ [][(~snap /\ first_time /\ interval = 0 /\ pc = "check"
              /\ pc' # "check") => (~Ticks /\ counter' = counter)]_vars

\* C11, as claimed: without snap the first check() after start() reports a
\* tick and takes the counter from 0 to 1.
C11_FirstCheckTicks ==
    [][(~snap /\ first_time /\ pc = "check" /\ pc' # "check") =>
           (Ticks /\ counter = 0 /\ counter' = 1)]_vars

C11_Witness ==
    /\ ~snap
    /\ interval # 0
    /\ pc = "cmds"
    /\ counter = 1
    /\ ~first_time
    /\ start_wait = 0
    /\ now = stage0

\* The overrun of a tick evaluation: the time elapsed since the stage, less
\* the interval.
Overrun == (now - stage) - interval

\* C12: after every tick reported by check(), the first tick of a run
\* included, timelag is the overrun of that tick evaluation if the overrun
\* exceeded latency_tolerance, and is cleared otherwise.
C12_TimelagOfEveryTick ==
    [][Ticks => timelag' = IF Overrun > latency_tolerance
                           THEN Overrun ELSE None]_vars

\* The passes of the present run in which command i was launched.
LaunchPasses(i) ==
    {units[u].pass : u \in {v \in 1..Len(units) :
                               units[v].cmd = i /\ units[v].run = run}}

\* The units of the present run for command i.
Launches(i) ==
    {u \in 1..Len(units) : units[u].cmd = i /\ units[u].run = run}

\* The commands with an nthtime gate and no times of day.
NthtimeCmds ==
    {i \in 1..Len(cmds) : cmds[i].cls = "Cmd" /\ cmds[i].times = {}}

\* C13: a Cmd with nthtime = k and no times of day is launched in the passes
\* whose counter is a multiple of k, once in each, and in no other pass; with
\* nthtime = 2 and max_count = 4 a run that is not stopped launches it
\* exactly twice, in the passes 2 and 4.
C13_NthtimePasses ==
    \A i \in NthtimeCmds :
        /\ \A p \in LaunchPasses(i) : p % cmds[i].nthtime = 0
        /\ \A u, v \in Launches(i) : units[u].pass = units[v].pass => u = v
        /\ (pc \in {"sleep", "run_check", "check"} /\ last_pass[1] = run) =>
               LaunchPasses(i) =
                   {p \in 1..counter : p % cmds[i].nthtime = 0}
        /\ (pc = "drain" /\ stops = 0 /\ max_count = 4
              /\ cmds[i].nthtime = 2) =>
               (LaunchPasses(i) = {2, 4} /\ Cardinality(Launches(i)) = 2)

C13_Witness ==
    /\ pc = "drain"
    /\ stops = 0
    /\ max_count = 4
    /\ cmds[1].nthtime = 2
    /\ Cardinality(cmds[1].times) = 0
    /\ LaunchPasses(1) = {2, 4}

\* The commands with times of day and nthtime = 1.
WindowCmds ==
    {i \in 1..Len(cmds) :
        cmds[i].cls = "Cmd" /\ cmds[i].times # {} /\ cmds[i].nthtime = 1}

\* The spacing between configured times of day: the least distance of two of
\* them, a day for a single one.
Spacing(ts) ==
    IF Cardinality(ts) = 1 THEN DayLen
    ELSE CHOOSE d \in 1..DayLen :
            /\ \E s, t \in ts : s < t /\ t - s = d
            /\ \A s, t \in ts : s < t => t - s >= d

\* C14: a Cmd with times of day on a running sequence whose interval is at
\* most the spacing of the times is launched at most once for each
\* configured time of a day, whatever the latency of the loop: within one
\* day a run has no more launches of it than it has configured times.
C14_OncePerTime ==
    \A i \in WindowCmds :
        (interval > 0 /\ interval <= Spacing(cmds[i].times) /\ now < DayLen)
            => Cardinality(Launches(i)) <= Cardinality(cmds[i].times)

\* The step in which the thread of unit u calls self.preexec(sequence).
CallsPreexec(u) ==
    /\ run' = run
    /\ units[u].status = "inc"
    /\ units'[u].status # "inc"

\* C15: the pre-execution wait of a Cmd with a delay accepted in pass p is
\* computed from the runtime of pass p: when its unit calls preexec() in a
\* run that has not ended, the stage and the counter of the timer are still
\* those of pass p, never those of another pass.
C15_PreexecOfOwnPass ==
    [][\A u \in 1..Len(units) :
           (/\ CallsPreexec(u)
            /\ cmds[units[u].cmd].cls = "Cmd"
            /\ cmds[units[u].cmd].delay > 0
            /\ TimerAlive
            /\ units[u].run = run) => units[u].pass = counter]_vars

\* C16: every Sequence has a command list of its own: a step that changes
\* the list of one Sequence (add_cmd) leaves the list of every other
\* Sequence as it was, also when both were made without a cmds argument.
C16_IndependentLists ==
    [][\A s \in DOMAIN seq_cmds :
           lists'[seq_cmds'[s]] # CmdsOf(s) =>
               \A o \in DOMAIN seq_cmds \ {s} :
                   lists'[seq_cmds'[o]] = CmdsOf(o)]_vars

\* C17: when the loop is left, by max_count or by stop(), the timer is reset
\* only after every unit of the final pass has ended, so that no unit of the
\* final pass reads the timer in its reset state: while go() drains, a timer
\* that is reset has no running unit of the final pass, and no such unit
\* has failed on the undefined runtime.
C17_ResetAfterDrain ==
    (run >= 1 /\ last_pass[1] = run) =>
        /\ (pc = "drain" /\ ~TimerAlive) =>
               \A u \in LastPassUnits(units) : Ended(units[u])
        /\ \A u \in LastPassUnits(units) : units[u].status # "crashed"

\* The executions of command i that have made their increment of
\* self._counter.
Counted(i) ==
    {u \in Launches(i) : units[u].status \notin {"start", "inc"}}

\* C18: the invocation counter of a command is the number of its executions
\* so far, one increment for each, also when executions of it overlap:
\* during the first run it equals the number of units of the command that
\* have passed their increment.
C18_CounterCountsExecutions ==
    run = 1 => \A i \in 1..Len(cmds) : cmd_counter[i] = Cardinality(Counted(i))

\* C19: whenever a Sequence that has run reports alive = false, no unit
\* started by any of its passes, the final one or an earlier one, is still
\* running.
C19_NotAliveNothingRuns ==
    alive = "false" => \A u \in 1..Len(units) : Ended(units[u])

\* C20: a stop() request made while the sequence is idle, before go() or
\* after an earlier go() has finished, has no effect on a later run: a run
\* with a non-zero interval and max_count >= 1 during which stop() is not
\* called leaves its loop only after a pass of its own.
C20_IdleStopForgotten ==
    (/\ stops = 1
     /\ stop_from = "idle"
     /\ run >= 1
     /\ pc \in {"drain", "finish", "done"}
     /\ kind = "Timer"
     /\ interval # 0
     /\ max_count # None /\ max_count >= 1) => last_pass[1] = run

====
